---- MODULE Spec2Model ----
(***************************************************************************)
(* A model of src/app/completion.py: the OpenAIClient wrapper.             *)
(*                                                                         *)
(* Strings are sequences of fragments (a fragment stands for a piece of    *)
(* text: a character of a model name, a token of a prompt, the content of  *)
(* one stream chunk); Python's + and f-string interpolation are \o.        *)
(* The completion service and the clock are the environment: what a        *)
(* request returns, which chunks a stream yields, when it fails and how    *)
(* long everything takes are nondeterministic choices.                     *)
(***************************************************************************)
EXTENDS Integers, Sequences, FiniteSets, TLC

\* ------------------------------------------------------------- bounds

\* The longest stream, in chunks, the environment produces.
MaxChunks == 2
\* The longest stream, in chunks, when two calls run concurrently.
MaxChunksConc == 1
\* The longest caller-supplied prompt, in tokens.
MaxPromptTokens == 2
\* The clock's resolution, in seconds: every request takes one or two steps.
TimeStep == 100
\* The longest diff text, in lines, handed to a prompt formatter.
MaxChanges == 1

\* ---------------------------------------------------------- constants

\* backoff.on_exception(..., max_time=300)
max_time == 300
\* request_timeout=100
request_timeout == 100
\* __init__'s max_tokens=4000 and min_tokens=256 defaults
default_max_tokens == 4000
default_min_tokens == 256

\* ------------------------------------------------------------ strings

\* str.startswith
startswith(s, prefix) ==
    /\ Len(s) >= Len(prefix)
    /\ SubSeq(s, 1, Len(prefix)) = prefix

\* The literal "gpt-" of get_completion.
GptPrefix == <<"g", "p", "t", "-">>

\* The module-level system_prompt, as tokens.
system_prompt == <<"Please review the code below", "please answer in Chinese.\n">>

\* f'{system_prompt}\n{prompt}'
prompt_message(prompt) == system_prompt \o <<"\n">> \o prompt

\* self.encoder.encode: one token id per token of the text.
encode(text) == [i \in 1..Len(text) |-> <<"id", text[i]>>]

\* self.max_tokens - len(self.encoder.encode(f'{system_prompt}\n{prompt}'))
token_budget(cfg, prompt) == cfg.max_tokens - Len(encode(prompt_message(prompt)))

\* ------------------------------------------------------------- chunks

\* A key that is not in a dictionary, and Python's None.
Missing == "<missing>"
None == "<None>"

\* The text fragments a chunk may carry.
Fragments == {"a", "b"}

\* A stream chunk is [choices_key, choices]: choices_key says whether the
\* event has no "choices" entry ("missing"), a null one ("null") or a list
\* ("list"), and choices is that list. A choice is [delta, message, text];
\* delta and message are [kind, content] with kind "missing" (no such key),
\* "null" (None) or "dict"; content and text are Missing, None or a fragment.
NoField == [kind |-> "missing", content |-> Missing]
NullField == [kind |-> "null", content |-> Missing]
Dict(content) == [kind |-> "dict", content |-> content]
Choice(delta, message, text) == [delta |-> delta, message |-> message, text |-> text]
Event(choices) == [choices_key |-> "list", choices |-> choices]
EventNoChoices == [choices_key |-> "missing", choices |-> <<>>]
EventNullChoices == [choices_key |-> "null", choices |-> <<>>]

\* What a chat-mode stream may yield.
ChatChunks ==
    {Event(<<Choice(Dict(f), NoField, Missing)>>) : f \in Fragments}
    \cup {Event(<<Choice(NoField, Dict("b"), Missing)>>),
          Event(<<Choice(Dict("a"), Dict("b"), Missing)>>),
          Event(<<Choice(Dict("b"), NoField, Missing), Choice(Dict("a"), NoField, Missing)>>),
          EventNoChoices,
          EventNullChoices,
          Event(<<>>),
          Event(<<Choice(NoField, NoField, Missing)>>),
          Event(<<Choice(Dict(None), NullField, Missing)>>),
          Event(<<Choice(Dict(Missing), Dict("a"), Missing)>>)}

\* What a text-mode stream may yield.
TextChunks ==
    {Event(<<Choice(NoField, NoField, f)>>) : f \in Fragments}
    \cup {Event(<<Choice(NoField, NoField, "b"), Choice(NoField, NoField, "a")>>),
          EventNoChoices,
          EventNullChoices,
          Event(<<>>),
          Event(<<Choice(NoField, NoField, Missing)>>),
          Event(<<Choice(NoField, NoField, None)>>)}

\* The chunks of short streams: some carrying text, one malformed.
ChatChunksConc ==
    {Event(<<Choice(Dict("a"), NoField, Missing)>>),
     Event(<<Choice(NoField, Dict("b"), Missing)>>),
     EventNullChoices}
TextChunksConc ==
    {Event(<<Choice(NoField, NoField, "a")>>),
     Event(<<Choice(NoField, NoField, Missing)>>)}

\* ------------------------------------------------------ the stream loops

\* The outcome of one pass through a loop body: the accumulator, and the
\* exception the pass raised ("none": it ran to its end).
Pass(text, exc) == [text |-> text, exc |-> exc]

\* event["choices"] is not None and len(event["choices"]) > 0
has_choices(event) == event.choices_key # "null" /\ Len(event.choices) > 0

\* choice.get(key, None) is not None and choice[key].get("content", None) is not None
has_content(field) == field.kind = "dict" /\ field.content \notin {Missing, None}

\* A variant of chat_event that appends the message before the delta.
chat_event_swapped(completion_text, event) ==
    IF event.choices_key = "missing" THEN Pass(completion_text, "KeyError")
    ELSE IF ~has_choices(event) THEN Pass(completion_text, "none")
    ELSE LET choice == event.choices[1]
             t1 == IF has_content(choice.message)
                   THEN completion_text \o <<choice.message.content>>
                   ELSE completion_text
             t2 == IF has_content(choice.delta)
                   THEN t1 \o <<choice.delta.content>>
                   ELSE t1
         IN  Pass(t2, "none")

\* The body of get_completion_chat's for loop.
chat_event(completion_text, event) ==
    IF event.choices_key = "missing" THEN Pass(completion_text, "KeyError")
    ELSE IF ~has_choices(event) THEN Pass(completion_text, "none")
    ELSE LET choice == event.choices[1]
             t1 == IF has_content(choice.delta)
                   THEN completion_text \o <<choice.delta.content>>
                   ELSE completion_text
             t2 == IF has_content(choice.message)
                   THEN t1 \o <<choice.message.content>>
                   ELSE t1
         IN  Pass(t2, "none")

\* The body of get_completion_text's for loop.
text_event(completion_text, event) ==
    IF event.choices_key = "missing" THEN Pass(completion_text, "KeyError")
    ELSE IF ~has_choices(event) THEN Pass(completion_text, "none")
    ELSE LET text == event.choices[1].text
         IN  IF text = Missing THEN Pass(completion_text, "KeyError")
             ELSE IF text = None THEN Pass(completion_text, "TypeError")
             ELSE Pass(completion_text \o <<text>>, "none")

\* ------------------------------------------------------------- errors

\* The exceptions backoff.on_exception is told to retry on.
Retryable == {"RateLimitError", "APIConnectionError", "ServiceUnavailableError"}

\* The other exceptions the openai library raises.
Fatal == {"AuthenticationError", "InvalidRequestError", "APIError", "Timeout"}

\* -------------------------------------------------------- environments

\* The threads calling the one client.
Callers == {"c1", "c2"}

\* Model identifiers: "gpt-4", "gpt-", "gpt", "text-d", "xgpt-", "GPT-4", "".
Models ==
    {<<"g", "p", "t", "-", "4">>, <<"g", "p", "t", "-">>, <<"g", "p", "t">>,
     <<"t", "e", "x", "t", "-", "d">>, <<"x", "g", "p", "t", "-">>,
     <<"G", "P", "T", "-", "4">>, <<>>}

\* A max_tokens small enough for the modelled prompts to exceed it.
SmallMaxTokens == 4

\* OpenAIClient.__init__
OpenAIClient(model, temperature, frequency_penalty, presence_penalty, max_tokens, min_tokens) ==
    [model |-> model,
     temperature |-> temperature,
     frequency_penalty |-> frequency_penalty,
     presence_penalty |-> presence_penalty,
     encoder |-> "gpt2",
     max_tokens |-> max_tokens,
     min_tokens |-> min_tokens]

\* The clients a single caller is checked with, and those of two callers.
Clients ==
    {OpenAIClient(m, "0.2", "0", "0", default_max_tokens, default_min_tokens) :
        m \in Models}
    \cup {OpenAIClient(m, "0.2", "0", "0", SmallMaxTokens, default_min_tokens) :
        m \in {<<"g", "p", "t", "-", "4">>, <<"t", "e", "x", "t", "-", "d">>}}
ClientsConc ==
    {OpenAIClient(m, "0.2", "0", "0", default_max_tokens, default_min_tokens) :
        m \in {<<"g", "p", "t", "-", "4">>, <<"t", "e", "x", "t", "-", "d">>}}

\* The empty prompt and the prompt of n tokens.
Prompts(n) == {[i \in 1..k |-> "tok"] : k \in {0, n}}

\* What the callers and the service may do: the threads that call, their
\* prompts, the chunks of a stream and its longest length, the exceptions
\* a request or a stream may raise, and how long a request or a sleep takes.
Env ==
    [callers |-> {"c1"},
     prompts |-> Prompts(MaxPromptTokens),
     chat |-> ChatChunks,
     text |-> TextChunks,
     maxlen |-> MaxChunks,
     errors |-> Retryable \cup Fatal,
     durations |-> {TimeStep, 2 * TimeStep},
     waits |-> {0, 2 * TimeStep}]
\* One caller, every exception and every timing, over short streams.
EnvRetry ==
    [Env EXCEPT !.chat = ChatChunksConc, !.text = TextChunksConc,
                !.maxlen = MaxChunksConc]
EnvConc ==
    [callers |-> Callers,
     prompts |-> Prompts(0),
     chat |-> ChatChunksConc,
     text |-> TextChunksConc,
     maxlen |-> MaxChunksConc,
     errors |-> {"RateLimitError", "AuthenticationError"},
     durations |-> {2 * TimeStep},
     waits |-> {0}]

\* -------------------------------------------------------------- state

VARIABLES
    self,             \* the client's fields
    pc,               \* where each caller's get_completion call stands
    prompt,           \* get_completion's argument
    tries,            \* backoff: attempts started
    clock,            \* seconds since the call started
    elapsed,          \* backoff: the clock read when the attempt started
    completion_text,  \* the running attempt's local accumulator
    received,         \* the chunks the attempt's stream has yielded so far
    requests,         \* the requests the call has issued
    exc,              \* the exception the last attempt raised, or "none"
    ratelimits,       \* how many attempts a RateLimitError has ended
    outcome,          \* what the call gave its caller
    formatted         \* each caller's last call of a prompt formatter

vars == <<self, pc, prompt, tries, clock, elapsed, completion_text, received,
          requests, exc, ratelimits, outcome, formatted>>

callvars == <<pc, prompt, tries, clock, elapsed, completion_text, received,
              requests, exc, ratelimits, outcome>>

NoOutcome == [kind |-> "none", value |-> <<>>, error |-> "none"]
Returned(value) == [kind |-> "returned", value |-> value, error |-> "none"]
Raised(error) == [kind |-> "raised", value |-> <<>>, error |-> error]

NotFormatted == [fn |-> "none", title |-> <<>>, body |-> <<>>, filename |-> <<>>,
                 changes |-> <<>>, result |-> <<>>]

InitWith(clients) ==
    /\ self \in clients
    /\ pc = [t \in Callers |-> "idle"]
    /\ prompt = [t \in Callers |-> <<>>]
    /\ tries = [t \in Callers |-> 0]
    /\ clock = [t \in Callers |-> 0]
    /\ elapsed = [t \in Callers |-> 0]
    /\ completion_text = [t \in Callers |-> <<>>]
    /\ received = [t \in Callers |-> <<>>]
    /\ requests = [t \in Callers |-> <<>>]
    /\ exc = [t \in Callers |-> "none"]
    /\ ratelimits = [t \in Callers |-> 0]
    /\ outcome = [t \in Callers |-> NoOutcome]
    /\ formatted = [t \in Callers |-> NotFormatted]

Init == InitWith(Clients)
InitConc == InitWith(ClientsConc)

\* ------------------------------------------------------ get_completion

\* A variant of is_chat that tests for "gpt" alone.
is_chat_gpt(cfg) == startswith(cfg.model, <<"g", "p", "t">>)

\* self.model.startswith("gpt-")
is_chat(cfg) == startswith(cfg.model, GptPrefix)

\* The request openai.ChatCompletion.create sends.
chat_request(cfg, p) ==
    [mode |-> "chat",
     model |-> cfg.model,
     messages |-> <<[role |-> "system", content |-> system_prompt],
                    [role |-> "user", content |-> p]>>,
     temperature |-> cfg.temperature,
     frequency_penalty |-> cfg.frequency_penalty,
     presence_penalty |-> cfg.presence_penalty,
     request_timeout |-> request_timeout,
     max_tokens |-> token_budget(cfg, p),
     stream |-> TRUE]

\* The request openai.Completion.create sends.
text_request(cfg, p) ==
    [mode |-> "text",
     model |-> cfg.model,
     prompt |-> prompt_message(p),
     temperature |-> cfg.temperature,
     best_of |-> "1",
     frequency_penalty |-> cfg.frequency_penalty,
     presence_penalty |-> cfg.presence_penalty,
     request_timeout |-> request_timeout,
     max_tokens |-> cfg.max_tokens - Len(encode(prompt_message(p))),
     stream |-> TRUE]

\* completion_text = '' : a stream loop starts from an empty accumulator.
new_completion_text(t) == <<>>

\* A variant of accumulate for an accumulator kept on the client, which
\* every call shares.
accumulate_shared(t, text) == [u \in Callers |-> text]

\* completion_text is a local of the call: a loop writes its caller's only.
accumulate(t, text) == [completion_text EXCEPT ![t] = text]

\* An exception leaves get_completion_chat or get_completion_text: the
\* frame, and its local completion_text with it, is gone.
Unwind(t) == completion_text' = accumulate(t, <<>>)

\* A variant of is_caught that catches every exception.
is_caught_any(e) == TRUE

\* backoff's except clause catches only the exceptions it was given.
is_caught(e) == e \in Retryable

\* A variant of max_time_exceeded that gives up after the second try.
max_tries_exceeded(t) == tries[t] >= 2 \/ elapsed[t] >= max_time

\* backoff: max_time_exceeded = elapsed >= max_time
max_time_exceeded(t) == elapsed[t] >= max_time

\* backoff: seconds = min(wait, max_time - elapsed)
next_wait(t, wait) ==
    IF wait < max_time - elapsed[t] THEN wait ELSE max_time - elapsed[t]

\* A variant of giveup that returns instead of raising.
giveup_returns(e) == Returned(<<>>)

\* backoff: what the call gives its caller when it gives up.
giveup(e) == Raised(e)

\* A caller calls client.get_completion(prompt): backoff's retry() starts.
Call(t, env) ==
    /\ pc[t] = "idle"
    /\ \E p \in env.prompts : prompt' = [prompt EXCEPT ![t] = p]
    /\ pc' = [pc EXCEPT ![t] = "retry"]
    /\ tries' = [tries EXCEPT ![t] = 0]
    /\ clock' = [clock EXCEPT ![t] = 0]
    /\ UNCHANGED <<self, elapsed, completion_text, received, requests, exc,
                   ratelimits, outcome, formatted>>

\* One turn of backoff's loop: it counts the try, reads the clock and calls
\* get_completion, which picks the mode from the model's name.
get_completion(t) ==
    /\ pc[t] = "retry"
    /\ tries' = [tries EXCEPT ![t] = @ + 1]
    /\ elapsed' = [elapsed EXCEPT ![t] = clock[t]]
    /\ pc' = [pc EXCEPT ![t] = IF is_chat(self) THEN "chat_create" ELSE "text_create"]
    /\ UNCHANGED <<self, prompt, clock, completion_text, received, requests, exc,
                   ratelimits, outcome, formatted>>

\* get_completion_chat up to its loop: the request is sent; the service
\* answers with a stream or the call raises.
ChatCreate(t, env) ==
    /\ pc[t] = "chat_create"
    /\ requests' = [requests EXCEPT ![t] = Append(@, chat_request(self, prompt[t]))]
    /\ \E d \in env.durations : clock' = [clock EXCEPT ![t] = @ + d]
    /\ \/ /\ pc' = [pc EXCEPT ![t] = "chat_loop"]
          /\ completion_text' = accumulate(t, new_completion_text(t))
          /\ received' = [received EXCEPT ![t] = <<>>]
          /\ UNCHANGED exc
       \/ /\ \E e \in env.errors : exc' = [exc EXCEPT ![t] = e]
          /\ pc' = [pc EXCEPT ![t] = "except"]
          /\ UNCHANGED <<completion_text, received>>
    /\ UNCHANGED <<self, prompt, tries, elapsed, ratelimits, outcome, formatted>>

\* get_completion_text up to its loop.
TextCreate(t, env) ==
    /\ pc[t] = "text_create"
    /\ requests' = [requests EXCEPT ![t] = Append(@, text_request(self, prompt[t]))]
    /\ \E d \in env.durations : clock' = [clock EXCEPT ![t] = @ + d]
    /\ \/ /\ pc' = [pc EXCEPT ![t] = "text_loop"]
          /\ completion_text' = accumulate(t, new_completion_text(t))
          /\ received' = [received EXCEPT ![t] = <<>>]
          /\ UNCHANGED exc
       \/ /\ \E e \in env.errors : exc' = [exc EXCEPT ![t] = e]
          /\ pc' = [pc EXCEPT ![t] = "except"]
          /\ UNCHANGED <<completion_text, received>>
    /\ UNCHANGED <<self, prompt, tries, elapsed, ratelimits, outcome, formatted>>

\* One pass of a stream loop over the event the stream yields next.
LoopPass(t, event, pass) ==
    /\ IF pass.exc = "none"
       THEN /\ received' = [received EXCEPT ![t] = Append(@, event)]
            /\ completion_text' = accumulate(t, pass.text)
            /\ UNCHANGED <<pc, exc>>
       ELSE /\ received' = [received EXCEPT ![t] = Append(@, event)]
            /\ exc' = [exc EXCEPT ![t] = pass.exc]
            /\ pc' = [pc EXCEPT ![t] = "except"]
            /\ Unwind(t)
    /\ UNCHANGED <<self, prompt, tries, clock, elapsed, requests, ratelimits,
                   outcome, formatted>>

\* for event in response, in get_completion_chat.
ChatEvent(t, env) ==
    /\ pc[t] = "chat_loop"
    /\ Len(received[t]) < env.maxlen
    /\ \E event \in env.chat : LoopPass(t, event, chat_event(completion_text[t], event))

\* for event in response, in get_completion_text.
TextEvent(t, env) ==
    /\ pc[t] = "text_loop"
    /\ Len(received[t]) < env.maxlen
    /\ \E event \in env.text : LoopPass(t, event, text_event(completion_text[t], event))

\* The stream ends: return completion_text, which backoff hands to the caller.
Return(t) ==
    /\ pc[t] \in {"chat_loop", "text_loop"}
    /\ outcome' = [outcome EXCEPT ![t] = Returned(completion_text[t])]
    /\ pc' = [pc EXCEPT ![t] = "done"]
    /\ UNCHANGED <<self, prompt, tries, clock, elapsed, completion_text, received,
                   requests, exc, ratelimits, formatted>>

\* A variant of StreamError that returns the text gathered so far.
StreamErrorPartial(t, env) ==
    /\ pc[t] \in {"chat_loop", "text_loop"}
    /\ \E e \in env.errors : exc' = [exc EXCEPT ![t] = e]
    /\ outcome' = [outcome EXCEPT ![t] = Returned(completion_text[t])]
    /\ pc' = [pc EXCEPT ![t] = "done"]
    /\ UNCHANGED <<self, prompt, tries, clock, elapsed, completion_text, received,
                   requests, ratelimits, formatted>>

\* The stream raises while the loop waits for its next event.
StreamError(t, env) ==
    /\ pc[t] \in {"chat_loop", "text_loop"}
    /\ \E e \in env.errors : exc' = [exc EXCEPT ![t] = e]
    /\ pc' = [pc EXCEPT ![t] = "except"]
    /\ Unwind(t)
    /\ received' = [received EXCEPT ![t] = <<>>]
    /\ UNCHANGED <<self, prompt, tries, clock, elapsed, requests, ratelimits,
                   outcome, formatted>>

\* The attempt raised. An exception backoff does not catch propagates; one
\* it catches is raised again once max_time is exceeded, else it sleeps.
OnException(t) ==
    /\ pc[t] = "except"
    /\ ratelimits' = [ratelimits EXCEPT ![t] = IF exc[t] = "RateLimitError" THEN @ + 1 ELSE @]
    /\ IF ~is_caught(exc[t])
       THEN /\ outcome' = [outcome EXCEPT ![t] = Raised(exc[t])]
            /\ pc' = [pc EXCEPT ![t] = "done"]
       ELSE IF max_time_exceeded(t)
       THEN /\ outcome' = [outcome EXCEPT ![t] = giveup(exc[t])]
            /\ pc' = [pc EXCEPT ![t] = "done"]
       ELSE /\ pc' = [pc EXCEPT ![t] = "sleep"]
            /\ UNCHANGED outcome
    /\ received' = [received EXCEPT ![t] = <<>>]
    /\ UNCHANGED <<self, prompt, tries, clock, elapsed, completion_text, requests,
                   exc, formatted>>

\* time.sleep(seconds), then the loop's next turn.
Sleep(t, env) ==
    /\ pc[t] = "sleep"
    /\ \E w \in env.waits : clock' = [clock EXCEPT ![t] = @ + next_wait(t, w)]
    /\ pc' = [pc EXCEPT ![t] = "retry"]
    /\ exc' = [exc EXCEPT ![t] = "none"]
    /\ UNCHANGED <<self, prompt, tries, elapsed, completion_text, received,
                   requests, ratelimits, outcome, formatted>>

\* ---------------------------------------------------- prompt formatters

\* The lines of a diff, and the diffs of up to n lines.
DiffLines == {"+x", "-y"}
Changes(n) == UNION {[1..k -> DiffLines] : k \in 0..n}
Titles == {<<>>, <<"Fix">>}
Bodies == {<<>>, <<"Why">>}
Filenames == {<<"a.py">>, <<"dir/", "b.py">>}

\* get_pr_prompt's f-string: the text before {changes} and the text after.
\* (FENCE stands for the line of three backquotes.)
pr_head == <<"Here are the changes for this pull request:\n", "Changes:\n", "FENCE\n">>
prompt_tail == <<"\nFENCE\n    ">>

\* get_file_prompt's f-string: before {filename}, between it and {changes}.
file_head == <<"Here are the changes for this pull request:\n",
               "And bellowing are changes for file ">>
file_mid == <<":\n", "FENCE\n">>

\* OpenAIClient.get_pr_prompt
get_pr_prompt(title, body, changes) == pr_head \o changes \o prompt_tail

\* A variant of get_file_prompt with a branch for empty changes that gives
\* no text.
get_file_prompt_empty(title, body, filename, changes) ==
    IF changes = <<>> THEN <<>>
    ELSE file_head \o filename \o file_mid \o changes \o prompt_tail

\* OpenAIClient.get_file_prompt
get_file_prompt(title, body, filename, changes) ==
    file_head \o filename \o file_mid \o changes \o prompt_tail

\* A caller calls client.get_pr_prompt(title, body, changes).
GetPrPrompt(t) ==
    /\ \E title \in Titles, body \in Bodies, changes \in Changes(MaxChanges) :
          formatted' = [formatted EXCEPT ![t] =
              [fn |-> "get_pr_prompt", title |-> title, body |-> body,
               filename |-> <<>>, changes |-> changes,
               result |-> get_pr_prompt(title, body, changes)]]
    /\ UNCHANGED <<self, callvars>>

\* A caller calls client.get_file_prompt(title, body, filename, changes).
GetFilePrompt(t) ==
    /\ \E title \in Titles, body \in Bodies, filename \in Filenames,
          changes \in Changes(MaxChanges) :
          formatted' = [formatted EXCEPT ![t] =
              [fn |-> "get_file_prompt", title |-> title, body |-> body,
               filename |-> filename, changes |-> changes,
               result |-> get_file_prompt(title, body, filename, changes)]]
    /\ UNCHANGED <<self, callvars>>

\* -------------------------------------------------------- specifications

Step(t, env) ==
    \/ Call(t, env)
    \/ get_completion(t)
    \/ ChatCreate(t, env)
    \/ TextCreate(t, env)
    \/ ChatEvent(t, env)
    \/ TextEvent(t, env)
    \/ Return(t)
    \/ StreamError(t, env)
    \/ OnException(t)
    \/ Sleep(t, env)

Next == \E t \in Env.callers : Step(t, Env)
NextConc == \E t \in EnvConc.callers : Step(t, EnvConc)

Spec == Init /\ [][Next]_vars
SpecConc == InitConc /\ [][NextConc]_vars

\* The retry loop of one call. The call's thread keeps running and the
\* service answers every request in the end (request_timeout bounds the
\* wait for it).
NextRetry == \E t \in EnvRetry.callers : Step(t, EnvRetry)
FairSpec == Init /\ [][NextRetry]_vars /\ WF_vars(NextRetry)

\* The formatters alone, called by both callers in any order.
NextPrompt == \E t \in Callers : GetPrPrompt(t) \/ GetFilePrompt(t)
SpecPrompt == InitConc /\ [][NextPrompt]_vars

\* --------------------------------------------------------------- claims

\* The last element of a non-empty sequence.
Last(seq) == seq[Len(seq)]

\* C1: get_completion issues a chat-mode request if and only if the model
\* identifier starts with "gpt-", a text-mode request otherwise, and every
\* attempt of one call (the first and each retry) issues the same mode.
C1_Dispatch ==
    LET m == self.model
        gpt == /\ Len(m) >= 4
               /\ m[1] = "g" /\ m[2] = "p" /\ m[3] = "t" /\ m[4] = "-"
    IN  \A t \in Callers :
          /\ \A i \in 1..Len(requests[t]) :
                requests[t][i].mode = (IF gpt THEN "chat" ELSE "text")
          /\ pc[t] \in {"chat_create", "chat_loop"} => gpt
          /\ pc[t] \in {"text_create", "text_loop"} => ~gpt

\* C1's case: a call whose model starts with "gpt-" has retried, and both
\* of its requests are chat requests.
C1_Witness ==
    /\ Len(requests["c1"]) = 2
    /\ requests["c1"][1].mode = "chat"
    /\ requests["c1"][2].mode = "chat"

\* C2: an attempt that fails with a rate-limit, connection or
\* service-unavailable error while backoff's elapsed time is below
\* max_time is followed by a sleep, a new turn of the loop and a new
\* request, never by the end of the call; and a call whose two first
\* attempts hit the rate limit and whose third succeeds returns the third
\* attempt's text.
C2_RetryOnTransient ==
    [][\A t \in Callers :
         /\ (pc[t] = "except" /\ exc[t] \in Retryable /\ elapsed[t] < max_time
                /\ pc'[t] # pc[t])
              => pc'[t] = "sleep" /\ outcome'[t] = NoOutcome
         /\ (pc[t] = "sleep" /\ pc'[t] # pc[t]) => pc'[t] = "retry"
         /\ (pc[t] = "retry" /\ pc'[t] # pc[t])
              => /\ pc'[t] \in {"chat_create", "text_create"}
                 /\ tries'[t] = tries[t] + 1
         /\ (pc[t] \in {"chat_create", "text_create"} /\ pc'[t] # pc[t])
              => Len(requests'[t]) = Len(requests[t]) + 1
         /\ (pc'[t] = "done" /\ pc[t] \in {"chat_loop", "text_loop"}
                /\ tries[t] = 3 /\ ratelimits[t] = 2)
              => outcome'[t] = Returned(completion_text[t])
      ]_vars

\* C2's case: two rate-limit failures, then a third attempt whose stream
\* ran to its end, and the call returned that attempt's text.
C2_Witness ==
    /\ pc["c1"] = "done"
    /\ tries["c1"] = 3
    /\ ratelimits["c1"] = 2
    /\ outcome["c1"] = Returned(<<"a", "b">>)

\* C4: an attempt that fails with an exception other than the three
\* retried ones ends the call at once: the exception reaches the caller,
\* no sleep, no further attempt, and no request is issued after it; a call
\* issues one request for each attempt.
C4_FatalNotRetried ==
    [][\A t \in Callers :
         /\ (pc[t] = "except" /\ exc[t] \notin Retryable /\ pc'[t] # pc[t])
              => /\ pc'[t] = "done"
                 /\ outcome'[t] = Raised(exc[t])
                 /\ requests'[t] = requests[t]
                 /\ tries'[t] = tries[t]
         /\ pc[t] = "done"
              => /\ pc'[t] = "done"
                 /\ requests'[t] = requests[t]
                 /\ outcome'[t] = outcome[t]
         /\ Len(requests'[t]) <= tries'[t]
      ]_vars

\* C4's case: the second attempt's loop raised KeyError on a chunk, and the
\* call ended with it after its two requests.
C4_Witness ==
    /\ pc["c1"] = "done"
    /\ outcome["c1"] = Raised("KeyError")
    /\ tries["c1"] = 2
    /\ Len(requests["c1"]) = 2

\* C3: a call whose last attempt failed with a retried exception ends only
\* once backoff's elapsed time has reached max_time, and then by raising
\* that last exception, never by returning a string; and every call ends.
C3_RetryExhaustion ==
    /\ [](\A t \in Callers :
            (pc[t] = "done" /\ exc[t] \in Retryable)
              => /\ outcome[t] = Raised(exc[t])
                 /\ elapsed[t] >= max_time
                 /\ clock[t] >= max_time)
    /\ \A t \in EnvRetry.callers : <>(pc[t] = "done")

\* C3's case: every one of at least three attempts hit the rate limit, the
\* budget ran out and the call raised RateLimitError.
C3_Witness ==
    /\ pc["c1"] = "done"
    /\ tries["c1"] >= 3
    /\ ratelimits["c1"] = tries["c1"]
    /\ clock["c1"] > max_time
    /\ outcome["c1"] = Raised("RateLimitError")

\* C5: no request carries a negative max_tokens, and a call whose prompts
\* (system prompt, newline, prompt) count max_tokens tokens or more issues
\* no request.
C5_BudgetNeverNegative ==
    \A t \in Callers :
      /\ \A i \in 1..Len(requests[t]) : requests[t][i].max_tokens >= 0
      /\ (pc[t] # "idle" /\ Len(system_prompt) + 1 + Len(prompt[t]) >= self.max_tokens)
            => requests[t] = <<>>

\* The text a chunk's first choice carries: in chat mode its delta content
\* then its message content, in text mode its text; nothing otherwise.
ChunkText(mode, chunk) ==
    IF chunk.choices_key # "list" \/ chunk.choices = <<>> THEN <<>>
    ELSE LET first == Head(chunk.choices)
             of(field) == IF field.kind = "dict" /\ field.content \in Fragments
                          THEN <<field.content>> ELSE <<>>
         IN  IF mode = "chat" THEN of(first.delta) \o of(first.message)
             ELSE IF first.text \in Fragments THEN <<first.text>> ELSE <<>>

\* chunk_1's text + chunk_2's text + ... + chunk_n's text
RECURSIVE Concatenation(_, _)
Concatenation(mode, chunks) ==
    IF chunks = <<>> THEN <<>>
    ELSE ChunkText(mode, Head(chunks)) \o Concatenation(mode, Tail(chunks))

\* A chunk with a first choice that carries text.
WellFormed(mode, chunk) == ChunkText(mode, chunk) # <<>>

\* The mode of the attempt a call is in, or ended with.
ModeOf(t) == Last(requests[t]).mode

\* C6: while a loop has seen only well-formed chunks its accumulator is the
\* concatenation of their texts in arrival order, and so is the string the
\* call returns when such a stream ends.
C6_ArrivalOrder ==
    \A t \in Callers :
      (/\ pc[t] \in {"chat_loop", "text_loop", "done"}
       /\ outcome[t].kind # "raised"
       /\ \A i \in 1..Len(received[t]) : WellFormed(ModeOf(t), received[t][i]))
      => /\ completion_text[t] = Concatenation(ModeOf(t), received[t])
         /\ pc[t] = "done" => outcome[t].value = Concatenation(ModeOf(t), received[t])

\* C6's case: a chat stream of a chunk with delta "a" and message "b" and a
\* chunk with delta "a" ended, and the call returned "a" + "b" + "a".
C6_Witness ==
    /\ pc["c1"] = "done"
    /\ Len(received["c1"]) = 2
    /\ \A i \in 1..2 : WellFormed("chat", received["c1"][i])
    /\ outcome["c1"] = Returned(<<"a", "b", "a">>)

\* C7: no pass of a stream loop raises on a chunk that lacks a field: no
\* attempt ends with the KeyError or TypeError of a loop body.
C7_MalformedSkipped ==
    \A t \in Callers : exc[t] \notin {"KeyError", "TypeError"}

\* C8: a call gives its caller nothing until it ends; it ends either by
\* raising, with no text, or by returning the text of the attempt whose
\* stream ran to its end without an exception: the concatenation of that
\* one stream's chunks, and nothing of an earlier attempt's.
C8_AllOrNothing ==
    \A t \in Callers :
      /\ pc[t] # "done" => outcome[t] = NoOutcome
      /\ pc[t] = "done" =>
           \/ /\ outcome[t].kind = "returned"
              /\ exc[t] = "none"
              /\ outcome[t].value = Concatenation(ModeOf(t), received[t])
           \/ /\ outcome[t].kind = "raised"
              /\ outcome[t].error = exc[t]
              /\ outcome[t].value = <<>>
      /\ pc[t] \in {"chat_create", "text_create", "except", "sleep", "retry"}
           => completion_text[t] = <<>>

\* C8's case: the second attempt's stream ran to its end and the call
\* returned that stream's text.
C8_Witness ==
    /\ pc["c1"] = "done"
    /\ tries["c1"] = 2
    /\ Len(received["c1"]) = 2
    /\ outcome["c1"] = Returned(<<"b", "a">>)

\* seq from its i-th element on for n elements.
Slice(seq, i, n) == SubSeq(seq, i, i + n - 1)

\* C9: get_pr_prompt returns the two heading lines and the opening fence,
\* the changes, then the closing fence; get_file_prompt returns the heading
\* line, the line naming the file, the opening fence, the changes, then the
\* closing fence; for empty changes too. Two calls of one formatter with
\* the same arguments return the same string, and no call changes the
\* client or a running get_completion call.
C9_FormattersPure ==
    /\ [](\A t \in Callers :
            LET f == formatted[t]
                r == f.result
                nc == Len(f.changes)
                nf == Len(f.filename)
            IN  /\ f.fn = "get_pr_prompt" =>
                     /\ Len(r) = 4 + nc
                     /\ Slice(r, 1, 3) = <<"Here are the changes for this pull request:\n",
                                           "Changes:\n", "FENCE\n">>
                     /\ Slice(r, 4, nc) = f.changes
                     /\ r[4 + nc] = "\nFENCE\n    "
                /\ f.fn = "get_file_prompt" =>
                     /\ Len(r) = 5 + nf + nc
                     /\ Slice(r, 1, 2) = <<"Here are the changes for this pull request:\n",
                                           "And bellowing are changes for file ">>
                     /\ Slice(r, 3, nf) = f.filename
                     /\ Slice(r, 3 + nf, 2) = <<":\n", "FENCE\n">>
                     /\ Slice(r, 5 + nf, nc) = f.changes
                     /\ r[5 + nf + nc] = "\nFENCE\n    "
                /\ \A u \in Callers :
                     LET g == formatted[u]
                     IN  (/\ g.fn = f.fn /\ g.title = f.title /\ g.body = f.body
                          /\ g.filename = f.filename /\ g.changes = f.changes)
                           => g.result = r)
    /\ [][self' = self /\ callvars' = callvars]_vars

\* C9's case: both callers called get_file_prompt with the same file name
\* and empty changes, and both got the scaffolding around nothing.
C9_Witness ==
    /\ formatted["c1"].fn = "get_file_prompt"
    /\ formatted["c1"].changes = <<>>
    /\ formatted["c1"].filename = <<"dir/", "b.py">>
    /\ formatted["c2"] = [formatted["c1"] EXCEPT !.title = <<"Fix">>]
    /\ formatted["c1"].title = <<"Fix">>
    /\ Len(formatted["c2"].result) = 7

\* C10: with two calls interleaved on one client, no step changes a field
\* of the client; a step that is not a caller's own leaves that caller's
\* accumulator and outcome alone; each accumulator is the concatenation of
\* its own stream's chunks, and each returned string that of the caller's
\* own last stream.
C10_NoInterference ==
    /\ [](\A t \in Callers :
            /\ (pc[t] \in {"chat_loop", "text_loop"} \/ outcome[t].kind = "returned")
                 => completion_text[t] = Concatenation(ModeOf(t), received[t])
            /\ outcome[t].kind = "returned" => outcome[t].value = completion_text[t]
            /\ (pc[t] \notin {"chat_loop", "text_loop"} /\ outcome[t].kind # "returned")
                 => completion_text[t] = <<>>)
    /\ [][/\ self' = self
          /\ \A t \in Callers :
               (pc'[t] = pc[t] /\ received'[t] = received[t])
                 => /\ completion_text'[t] = completion_text[t]
                    /\ outcome'[t] = outcome[t]
                    /\ requests'[t] = requests[t]]_vars

\* C10's case: both calls ran at once, one retried after a rate limit, and
\* each returned its own stream's text.
C10_Witness ==
    /\ pc["c1"] = "done" /\ pc["c2"] = "done"
    /\ tries["c1"] = 1 /\ tries["c2"] = 2
    /\ outcome["c1"] = Returned(<<"a">>)
    /\ outcome["c2"] = Returned(<<"b">>)

====
